---- MODULE Spec2Model ----
(***************************************************************************)
(* A model of src/bot.py, the Render management Telegram bot.              *)
(*                                                                         *)
(* The program has no state of its own besides its configuration (three    *)
(* environment variables read at import) and the handlers main registers.  *)
(* Every update (command, button press, text message) is dispatched to at  *)
(* most one handler, which runs to its end: it issues upstream HTTP calls  *)
(* through make_render_request, sends or edits messages, and may raise.    *)
(* The model keeps, for the update handled last, the gateway invocations   *)
(* it made (trace), the messages it sent (replies) and whether it raised.  *)
(*                                                                         *)
(* Strings that the code builds and takes apart (callback data, endpoint   *)
(* paths) are sequences of chunks, so that f-string building is \o and     *)
(* startswith is a prefix test.  Reply texts typed by the user are         *)
(* sequences of characters.                                                *)
(***************************************************************************)
EXTENDS Integers, Sequences, FiniteSets, TLC

VARIABLES
    TELEGRAM_BOT_TOKEN,   \* os.environ.get('BOT_TOKEN'): Unset or a token
    RENDER_API_KEY,       \* os.environ.get('RENDER_TOKEN'): Unset or a token
    ADMIN_USER_ID,        \* os.environ.get('USER_ID'): Unset or a user id string
    jsonErrorCaught,      \* whether the installed requests raises a RequestException from response.json()
    mainPc,               \* position of main()
    handlers,             \* application handlers, in registration order
    errorHandlers,        \* application error handlers
    healthStarted,        \* the health-server thread has been started
    mainLog,              \* what main() logged
    event,                \* the update handled (or lost) last
    handledBy,            \* the callback that handled it, or "none"
    trace,                \* make_render_request invocations of that handler, in order
    replies,              \* messages sent or edited by that handler, in order
    raised,               \* the handler ended in an exception
    errorLog              \* error_handler logged that exception

vars == << TELEGRAM_BOT_TOKEN, RENDER_API_KEY, ADMIN_USER_ID, jsonErrorCaught,
           mainPc, handlers, errorHandlers, healthStarted, mainLog,
           event, handledBy, trace, replies, raised, errorLog >>

config == << TELEGRAM_BOT_TOKEN, RENDER_API_KEY, ADMIN_USER_ID, jsonErrorCaught >>
app == << mainPc, handlers, errorHandlers, healthStarted, mainLog >>

-----------------------------------------------------------------------------
(* Bounds of the model *)

\* user ids are 1..NumUsers
NumUsers == 2
\* /scale is tried with the counts -1..MaxInstances (and non-numbers)
MaxInstances == 2
\* a list body of the upstream holds at most MaxList items
MaxList == 2

-----------------------------------------------------------------------------
(* Values *)

Unset == ""
Users == 1 .. NumUsers
ServiceIds == {"srv-a", "srv-b"}
CronIds == {"crn-a"}

\* Python's str(int) and int(str) on the numbers the model uses
str(n) == ToString(n)
Numbers == (0 - 1) .. MaxInstances
IsIntString(s) == \E n \in Numbers : str(n) = s
int(s) == CHOOSE n \in Numbers : str(n) = s

\* Python's truthiness of a str from os.environ.get
Truthy(s) == s # Unset

-----------------------------------------------------------------------------
(* Strings as sequences of characters: str.upper() and str.strip() *)

Lower == << "a","b","c","d","e","f","g","h","i","j","k","l","m",
            "n","o","p","q","r","s","t","u","v","w","x","y","z" >>
Upper == << "A","B","C","D","E","F","G","H","I","J","K","L","M",
            "N","O","P","Q","R","S","T","U","V","W","X","Y","Z" >>

upperChar(c) ==
    IF \E i \in 1 .. Len(Lower) : Lower[i] = c
    THEN Upper[CHOOSE i \in 1 .. Len(Lower) : Lower[i] = c]
    ELSE c

\* str.upper()
upper(s) == [i \in 1 .. Len(s) |-> upperChar(s[i])]

Chars(w) ==
    CASE w = "GET" -> << "G","E","T" >>
      [] w = "POST" -> << "P","O","S","T" >>
      [] w = "DELETE" -> << "D","E","L","E","T","E" >>
      [] w = "PATCH" -> << "P","A","T","C","H" >>
      [] w = "PUT" -> << "P","U","T" >>

-----------------------------------------------------------------------------
(* The upstream REST API: what it may answer to one HTTP request *)

Absent == "absent"
NotJson == [kind |-> "notjson"]

\* a JSON object; a field the object lacks has the value Absent
DictBody(id, suspended, details, logs) ==
    [kind |-> "dict", id |-> id, suspended |-> suspended,
     serviceDetails |-> details, numInstances |-> Absent, logs |-> logs]

DictBodies ==
    { DictBody("some-id", s, d, Absent) : s \in {"true", "false", Absent},
                                          d \in {"present", Absent} }
    \cup { DictBody(Absent, Absent, Absent, l) : l \in {Absent, "empty", "short", "long"} }

\* the length of "short" and of "long" logs
LogsLen(logs) == IF logs = "long" THEN 5000 ELSE IF logs = "short" THEN 200 ELSE 0

\* a JSON array of objects; each item has a name or lacks it.  textLen is the
\* number of characters of the message a handler composes from the array (the
\* fields of its items are as long as the upstream makes them): below the
\* cut-off, between the cut-off and the limit of the transport, above the limit
ListItems == { [id |-> "item-id", name |-> "name"], [id |-> "item-id", name |-> Absent] }
HeaderLen == 80
TextLens == {200, 4050, 5000}
ListBodies ==
    { [kind |-> "list", items |-> << >>, textLen |-> HeaderLen] }
    \cup { [kind |-> "list", items |-> it, textLen |-> n] :
                it \in UNION { [1 .. n -> ListItems] : n \in 1 .. MaxList }, n \in TextLens }

JsonBodies == DictBodies \cup ListBodies

\* status 0: no HTTP response at all (requests raises ConnectionError or Timeout)
ConnError == [status |-> 0, body |-> NotJson]
Statuses == {200, 202, 204, 304, 404, 500}
BodyStatuses == {200, 202, 304}
Upstreams ==
    {ConnError}
    \cup { [status |-> s, body |-> NotJson] : s \in Statuses }
    \cup { [status |-> s, body |-> b] : s \in BodyStatuses, b \in JsonBodies }

\* the placeholder for "no HTTP request went out"
NoAnswer == [status |-> (0 - 1), body |-> NotJson]

\* dict.get(field, default)
Get(d, field, default) ==
    IF field \in DOMAIN d /\ d[field] # Absent THEN d[field] ELSE default

-----------------------------------------------------------------------------
(* make_render_request, src/bot.py 60-89 *)

NoData == [kind |-> "none"]
Params(limit) == [kind |-> "params", limit |-> limit]

SupportedMethods == { Chars("GET"), Chars("POST"), Chars("DELETE"), Chars("PATCH"), Chars("PUT") }

Failure(error, detail) == [kind |-> "dict", error |-> error, detail |-> detail]
OperationSuccessful == [kind |-> "dict", message |-> "Operation successful"]

\* requests.Response.raise_for_status raises HTTPError for 400 <= status < 600
RaisesForStatus(status) == status >= 400 /\ status < 600

\* One invocation: the arguments, the HTTP verb of the request issued (sent, <<>> when none),
\* the upstream's answer `up`, and the outcome: raised, or (success, response).
\* `requests` lists the calls of requests.get/post/delete/patch/put it made, and
\* `logged` says that the except branch (src/bot.py 87-89) logged the error: it is
\* the only way to a failure once a request has been made.
Invocation(method, endpoint, data, sent, up, isRaised, success, response) ==
    [method |-> method, endpoint |-> endpoint, data |-> data, sent |-> sent,
     requests |-> IF sent = <<>> THEN <<>> ELSE << sent >>,
     up |-> up, raised |-> isRaised, success |-> success, response |-> response,
     logged |-> (sent # <<>> /\ ~isRaised /\ ~success)]

\* make_render_request without the test for 204: the empty body is parsed
make_render_request_Parses204(method, endpoint, data, up) ==
    LET m == upper(method)
        inv(isRaised, success, response) ==
            Invocation(method, endpoint, data, m, up, isRaised, success, response)
    IN  IF m \notin SupportedMethods
        THEN Invocation(method, endpoint, data, <<>>, NoAnswer, FALSE, FALSE,
                        Failure("Unsupported method", method))
        ELSE IF up.status = 0
        THEN inv(FALSE, FALSE, Failure("RequestException", <<>>))
        ELSE IF RaisesForStatus(up.status)
        THEN inv(FALSE, FALSE, Failure("HTTPError", << str(up.status) >>))
        ELSE IF up.body.kind = "notjson"
        THEN IF jsonErrorCaught
             THEN inv(FALSE, FALSE, Failure("JSONDecodeError", <<>>))
             ELSE inv(TRUE, FALSE, NotJson)
        ELSE inv(FALSE, TRUE, up.body)

\* a gateway that compares the method as it was given, without .upper()
make_render_request_CaseSensitive(method, endpoint, data, up) ==
    LET m == method
        inv(isRaised, success, response) ==
            Invocation(method, endpoint, data, m, up, isRaised, success, response)
    IN  IF m \notin SupportedMethods
        THEN Invocation(method, endpoint, data, <<>>, NoAnswer, FALSE, FALSE,
                        Failure("Unsupported method", method))
        ELSE IF up.status = 0
        THEN inv(FALSE, FALSE, Failure("RequestException", <<>>))
        ELSE IF RaisesForStatus(up.status)
        THEN inv(FALSE, FALSE, Failure("HTTPError", << str(up.status) >>))
        ELSE IF up.status = 204
        THEN inv(FALSE, TRUE, OperationSuccessful)
        ELSE IF up.body.kind = "notjson"
        THEN IF jsonErrorCaught
             THEN inv(FALSE, FALSE, Failure("JSONDecodeError", <<>>))
             ELSE inv(TRUE, FALSE, NotJson)
        ELSE inv(FALSE, TRUE, up.body)

make_render_request(method, endpoint, data, up) ==
    LET m == upper(method)
        inv(isRaised, success, response) ==
            Invocation(method, endpoint, data, m, up, isRaised, success, response)
    IN  IF m \notin SupportedMethods
        THEN Invocation(method, endpoint, data, <<>>, NoAnswer, FALSE, FALSE,
                        Failure("Unsupported method", method))
        ELSE IF up.status = 0
        THEN inv(FALSE, FALSE, Failure("RequestException", <<>>))
        ELSE IF RaisesForStatus(up.status)
        THEN inv(FALSE, FALSE, Failure("HTTPError", << str(up.status) >>))
        ELSE IF up.status = 204
        THEN inv(FALSE, TRUE, OperationSuccessful)
        ELSE IF up.body.kind = "notjson"
        THEN IF jsonErrorCaught
             THEN inv(FALSE, FALSE, Failure("JSONDecodeError", <<>>))
             ELSE inv(TRUE, FALSE, NotJson)
        ELSE inv(FALSE, TRUE, up.body)

-----------------------------------------------------------------------------
(* Updates the messaging platform may deliver *)

\* callback data and endpoint paths are sequences of chunks
StartsWith(data, prefix) == Len(data) >= 1 /\ data[1] = prefix
\* data.replace(prefix, "") of a data that starts with prefix
ReplacePrefix(data, prefix) == IF Len(data) >= 2 THEN data[2] ELSE ""

\* the marker phrases of the specification's two-step prompts
Markers == {"add or update", "to DELETE", "name", "Start", "IGNORE", "PERMANENTLY DELETE", "API"}

NoParent == [id |-> "", markers |-> {}]
NoEvent == [kind |-> "none", user |-> 0, name |-> "", args |-> <<>>,
            data |-> <<>>, text |-> <<>>, parent |-> NoParent]

\* "/name arg1 arg2" sent by user
Command(user, name, args) ==
    [kind |-> "command", user |-> user, name |-> name, args |-> args,
     data |-> <<>>, text |-> <<>>, parent |-> NoParent]
\* a press of an inline button carrying callback_data
Callback(user, data) ==
    [kind |-> "callback", user |-> user, name |-> "", args |-> <<>>,
     data |-> data, text |-> <<>>, parent |-> NoParent]
\* a text message that is not a command, sent as a reply to a message whose
\* text holds the service id parent.id ("" for none) and the markers parent.markers
TextReply(user, text, parent) ==
    [kind |-> "text", user |-> user, name |-> "", args |-> <<>>,
     data |-> <<>>, text |-> text, parent |-> parent]

\* src/bot.py 926-940: the commands main registers
RegisteredCommands ==
    {"start", "help", "services", "info", "logs", "deployments", "suspend", "resume",
     "redeploy", "restart", "scale", "usage", "cron_jobs", "databases", "create_service"}

\* src/bot.py 146-164: the commands the /start text lists
StartAdvertised ==
    {"services", "deployments", "logs", "env", "domains", "metrics", "usage", "help",
     "suspend", "resume", "redeploy", "restart", "scale",
     "create_service", "delete_service", "update_env"}

\* src/bot.py 179-210: the commands the /help text lists
HelpAdvertised ==
    {"start", "help", "services", "info", "deployments", "logs", "env", "domains",
     "metrics", "suspend", "resume", "redeploy", "restart", "scale",
     "create_service", "delete_service", "update_env", "usage",
     "cron_jobs", "run_cron", "databases", "backups"}

\* the commands of the specification's credential store
SessionCommands == {"login", "logout"}

CommandNames == RegisteredCommands \cup StartAdvertised \cup HelpAdvertised \cup SessionCommands

CountArgs == { str(n) : n \in Numbers } \cup {"x"}
ArgLists ==
    { <<>> }
    \cup { << s >> : s \in ServiceIds }
    \cup { << s, c >> : s \in ServiceIds, c \in CountArgs }

\* src/bot.py 266-273, 311-324, 413-417, 603-607: the callback data of the buttons
\* the bot attaches, and what button_callback tests for
ButtonPrefixes ==
    {"service_info_", "redeploy_", "toggle_suspend_", "logs_", "env_", "metrics_",
     "deployments_", "trigger_deploy_", "rollback_"}
ButtonData ==
    { << p, s >> : p \in ButtonPrefixes, s \in ServiceIds }
    \cup { << "run_cron_", c >> : c \in CronIds }
    \cup { << "refresh_services" >>, << "show_usage" >>, << "refresh_crons" >> }

ReplyTexts ==
    { << "C","O","N","F","I","R","M" >>,
      << " ","c","o","n","f","i","r","m"," " >>,
      << "n","o" >>,
      << "F","O","O","=","b","a","r" >>,
      << "F","O","O","b","a","r" >>,
      << "r","n","d","_","k","e","y" >> }
Parents ==
    { [id |-> i, markers |-> ms] :
        i \in ServiceIds \cup {""},
        ms \in { {} } \cup { {m} : m \in Markers } \cup { {"to DELETE", "PERMANENTLY DELETE"} } }

Events ==
    { Command(u, n, a) : u \in Users, n \in CommandNames, a \in ArgLists }
    \cup { Callback(u, d) : u \in Users, d \in ButtonData }
    \cup { TextReply(u, t, p) : u \in Users, t \in ReplyTexts, p \in Parents }

-----------------------------------------------------------------------------
(* main, src/bot.py 911-968 *)

CommandHandler(command, callback) == [kind |-> "command", command |-> command, callback |-> callback]
CallbackQueryHandler(callback) == [kind |-> "callback", command |-> "", callback |-> callback]

\* src/bot.py 926-943, in registration order
HandlerTable ==
    << CommandHandler("start", "start"),
       CommandHandler("help", "help_command"),
       CommandHandler("services", "list_services"),
       CommandHandler("info", "service_info"),
       CommandHandler("logs", "service_logs"),
       CommandHandler("deployments", "service_deployments"),
       CommandHandler("suspend", "suspend_service"),
       CommandHandler("resume", "resume_service"),
       CommandHandler("redeploy", "redeploy_service"),
       CommandHandler("restart", "redeploy_service"),
       CommandHandler("scale", "scale_service"),
       CommandHandler("usage", "show_usage"),
       CommandHandler("cron_jobs", "list_cron_jobs"),
       CommandHandler("databases", "list_databases"),
       CommandHandler("create_service", "create_service_interactive"),
       CallbackQueryHandler("button_callback") >>

\* a command handler that does not compare the command's name
Matches_AnyCommand(h, e) ==
    \/ h.kind = "command" /\ e.kind = "command"
    \/ h.kind = "callback" /\ e.kind = "callback"

\* Handler.check_update of the two handler classes main uses
Matches(h, e) ==
    \/ h.kind = "command" /\ e.kind = "command" /\ e.name = h.command
    \/ h.kind = "callback" /\ e.kind = "callback"

\* Application.process_update: the first registered handler that matches, or "none"
HandlerFor(e) ==
    IF \E i \in 1 .. Len(handlers) : Matches(handlers[i], e)
    THEN handlers[CHOOSE i \in 1 .. Len(handlers) :
                    /\ Matches(handlers[i], e)
                    /\ \A j \in 1 .. (i - 1) : ~Matches(handlers[j], e)].callback
    ELSE "none"

Init ==
    /\ TELEGRAM_BOT_TOKEN \in {Unset, "bot-token"}
    /\ RENDER_API_KEY \in {Unset, "rnd_env"}
    /\ ADMIN_USER_ID \in {Unset} \cup { str(u) : u \in Users }
    /\ jsonErrorCaught \in BOOLEAN
    /\ mainPc = "start"
    /\ handlers = <<>>
    /\ errorHandlers = <<>>
    /\ healthStarted = FALSE
    /\ mainLog = <<>>
    /\ event = NoEvent
    /\ handledBy = "none"
    /\ trace = <<>>
    /\ replies = <<>>
    /\ raised = FALSE
    /\ errorLog = FALSE

update == << event, handledBy, trace, replies, raised, errorLog >>

\* main without the check of RENDER_API_KEY
MainCheckEnv_NoRenderCheck ==
    /\ mainPc = "start"
    /\ IF ~Truthy(TELEGRAM_BOT_TOKEN)
       THEN mainLog' = Append(mainLog, "TELEGRAM_BOT_TOKEN environment variable is not set")
            /\ mainPc' = "returned"
       ELSE mainLog' = mainLog /\ mainPc' = "checked"
    /\ UNCHANGED << config, handlers, errorHandlers, healthStarted, update >>

\* src/bot.py 914-920: the two environment checks
MainCheckEnv ==
    /\ mainPc = "start"
    /\ IF ~Truthy(TELEGRAM_BOT_TOKEN)
       THEN mainLog' = Append(mainLog, "TELEGRAM_BOT_TOKEN environment variable is not set")
            /\ mainPc' = "returned"
       ELSE IF ~Truthy(RENDER_API_KEY)
       THEN mainLog' = Append(mainLog, "RENDER_API_KEY environment variable is not set")
            /\ mainPc' = "returned"
       ELSE mainLog' = mainLog /\ mainPc' = "checked"
    /\ UNCHANGED << config, handlers, errorHandlers, healthStarted, update >>

\* src/bot.py 923-946: build the application, register the handlers
MainRegister ==
    /\ mainPc = "checked"
    /\ handlers' = HandlerTable
    /\ errorHandlers' = << "error_handler" >>
    /\ mainPc' = "registered"
    /\ UNCHANGED << config, healthStarted, mainLog, update >>

\* src/bot.py 965-966: start the health-server thread
MainStartHealth ==
    /\ mainPc = "registered"
    /\ healthStarted' = TRUE
    /\ mainPc' = "health"
    /\ UNCHANGED << config, handlers, errorHandlers, mainLog, update >>

\* a main that may start polling before the health-server thread is started
MainRunPolling_BeforeHealth ==
    /\ mainPc \in {"registered", "health"}
    /\ mainPc' = "polling"
    /\ UNCHANGED << config, handlers, errorHandlers, healthStarted, mainLog, update >>

\* src/bot.py 968: application.run_polling
MainRunPolling ==
    /\ mainPc = "health"
    /\ mainPc' = "polling"
    /\ UNCHANGED << config, handlers, errorHandlers, healthStarted, mainLog, update >>

-----------------------------------------------------------------------------
(* What a handler does: its gateway invocations, its messages, its end *)

Out(tr, rs, isRaised) == [trace |-> tr, replies |-> rs, raised |-> isRaised]

\* update.message.reply_text / query.edit_message_text / query.answer
Send(via, tag, args, buttons) == [via |-> via, tag |-> tag, args |-> args, buttons |-> buttons]
Reply(tag, args, buttons) == Send("reply", tag, args, buttons)
Edit(tag, args, buttons) == Send("edit", tag, args, buttons)
Answer == [via |-> "answer", tag |-> "", args |-> <<>>, buttons |-> <<>>]

\* f"Error: {response.get('error', 'Unknown error')}"
ErrorArgs(response) ==
    << Get(response, "error", "Unknown error") >> \o Get(response, "detail", <<>>)

\* bool(x) of a parsed body
IsEmptyBody(b) ==
    \/ b.kind = "list" /\ b.items = <<>>
    \/ b.kind = "dict" /\ \A f \in DOMAIN b : f = "kind" \/ b[f] = Absent

\* "Telegram limit: 4096 chars" and the cut-off `len(message) > 4000`
TelegramLimit == 4096
TruncateAt == 4000
\* len("\n... (truncated)"), len("\n\n... (logs truncated)"), len("<pre></pre>")
ListMarkLen == 16
LogsMarkLen == 22
PreLen == 11

\* message[:4000] + marker when len(message) > 4000
Truncated(n, markLen) ==
    IF n > TruncateAt THEN [textLen |-> TruncateAt + markLen, truncated |-> TRUE]
    ELSE [textLen |-> n, truncated |-> FALSE]

\* a composite message: its text has t.textLen characters and is cut or whole
Composite(msg, t) ==
    [via |-> msg.via, tag |-> msg.tag, args |-> msg.args, buttons |-> msg.buttons,
     textLen |-> t.textLen, truncated |-> t.truncated]

\* reply_text / edit_message_text of a composite message: the transport
\* refuses a text above its limit (BadRequest: message is too long)
Deliver(tr, pre, msg) ==
    IF msg.textLen > TelegramLimit THEN Out(tr, pre, TRUE)
    ELSE Out(tr, pre \o << msg >>, FALSE)

Min(a, b) == IF a < b THEN a ELSE b
\* items[:n]
FirstItems(items, n) == SubSeq(items, 1, Min(Len(items), n))
\* service.get('name')[:15] raises TypeError on None
SomeNameMissing(items) == \E i \in 1 .. Len(items) : items[i].name = Absent

\* src/bot.py 48-58
check_admin(e) ==
    IF ~Truthy(ADMIN_USER_ID) THEN [ok |-> TRUE, replies |-> <<>>]
    ELSE IF str(e.user) = ADMIN_USER_ID THEN [ok |-> TRUE, replies |-> <<>>]
    ELSE [ok |-> FALSE, replies |-> << Reply("not authorized", <<>>, <<>>) >>]

\* `if not await check_admin(update): return` at the head of a command handler
Admin(e, body) ==
    IF check_admin(e).ok THEN body ELSE Out(<<>>, check_admin(e).replies, FALSE)

\* the shape every list command shares: fetch, report a failure, report an empty
\* list, render the list; `keyed` is the number of items that get a button labelled
\* with name[:15] (0: no such buttons), `fixed` the other buttons
ListOut(r, pre, emptyTag, listTag, keyed, prefix, fixed, via) ==
    IF r.raised THEN Out(<< r >>, pre, TRUE)
    ELSE IF ~r.success THEN Out(<< r >>, pre \o << Send(via, "error", ErrorArgs(r.response), <<>>) >>, FALSE)
    ELSE IF IsEmptyBody(r.response) THEN Out(<< r >>, pre \o << Send(via, emptyTag, <<>>, <<>>) >>, FALSE)
    ELSE IF r.response.kind # "list" THEN Out(<< r >>, pre, TRUE)
    ELSE IF SomeNameMissing(FirstItems(r.response.items, keyed)) THEN Out(<< r >>, pre, TRUE)
    ELSE Deliver(<< r >>, pre,
                 Composite(Send(via, listTag, << str(Len(r.response.items)) >>,
                                [i \in 1 .. Len(FirstItems(r.response.items, keyed)) |->
                                    << prefix, r.response.items[i].id >>] \o fixed),
                           Truncated(r.response.textLen, ListMarkLen)))

\* src/bot.py 135-168
start(e) == Admin(e, Out(<<>>, << Reply("welcome", <<>>, <<>>) >>, FALSE))

\* src/bot.py 170-219
help_command(e) == Admin(e, Out(<<>>, << Reply("help", <<>>, <<>>) >>, FALSE))

\* src/bot.py 221-286
list_services(e, up) ==
    Admin(e,
        ListOut(make_render_request(Chars("GET"), << "services" >>, Params("50"), up),
                << Reply("fetching services", <<>>, <<>>) >>,
                "no services", "service list", 5, "service_info_",
                << << "refresh_services" >>, << "show_usage" >> >>, "reply"))

\* src/bot.py 311-326: the keyboard under a service's information
ServiceKeyboard(service_id) ==
    << << "redeploy_", service_id >>, << "toggle_suspend_", service_id >>,
       << "logs_", service_id >>, << "env_", service_id >>,
       << "metrics_", service_id >>, << "deployments_", service_id >>,
       << "refresh_services" >> >>

\* src/bot.py 288-329.  format_service_info is a coroutine function called
\* without await: info_text is a coroutine object, which reply_text cannot send.
service_info(e, up) ==
    Admin(e,
        IF e.args = <<>> THEN Out(<<>>, << Reply("usage", << "info" >>, <<>>) >>, FALSE)
        ELSE LET service_id == e.args[1]
                 pre == << Reply("fetching info", << service_id >>, <<>>) >>
                 r == make_render_request(Chars("GET"), << "services/", service_id >>, NoData, up)
             IN  IF r.raised THEN Out(<< r >>, pre, TRUE)
                 ELSE IF ~r.success
                 THEN Out(<< r >>, pre \o << Reply("error", ErrorArgs(r.response), <<>>) >>, FALSE)
                 ELSE Out(<< r >>, pre, TRUE))

\* src/bot.py 349-358 and 768-774: the logs of a successful response
LogsOut(r, pre, via) ==
    IF r.response.kind # "dict" THEN Out(<< r >>, pre, TRUE)
    ELSE LET logs == Get(r.response, "logs", "empty")
         IN  IF logs = "empty" THEN Out(<< r >>, pre \o << Send(via, "no logs", <<>>, <<>>) >>, FALSE)
             ELSE LET t == Truncated(LogsLen(logs), LogsMarkLen)
                  IN  Deliver(<< r >>, pre,
                              Composite(Send(via, "logs", <<>>, <<>>),
                                        [textLen |-> t.textLen + PreLen, truncated |-> t.truncated]))

\* src/bot.py 331-358
service_logs(e, up) ==
    Admin(e,
        IF e.args = <<>> THEN Out(<<>>, << Reply("usage", << "logs" >>, <<>>) >>, FALSE)
        ELSE LET service_id == e.args[1]
                 pre == << Reply("fetching logs", << service_id >>, <<>>) >>
                 r == make_render_request(Chars("GET"), << "services/", service_id, "/logs" >>, NoData, up)
             IN  IF r.raised THEN Out(<< r >>, pre, TRUE)
                 ELSE IF ~r.success
                 THEN Out(<< r >>, pre \o << Reply("error", ErrorArgs(r.response), <<>>) >>, FALSE)
                 ELSE LogsOut(r, pre, "reply"))

\* src/bot.py 360-427
service_deployments(e, up) ==
    Admin(e,
        IF e.args = <<>> THEN Out(<<>>, << Reply("usage", << "deployments" >>, <<>>) >>, FALSE)
        ELSE LET service_id == e.args[1]
             IN  ListOut(make_render_request(Chars("GET"), << "services/", service_id, "/deployments" >>,
                                             Params("10"), up),
                         << Reply("fetching deployments", << service_id >>, <<>>) >>,
                         "no deployments", "deployment list", 0, "",
                         << << "trigger_deploy_", service_id >>, << "rollback_", service_id >>,
                            << "service_info_", service_id >> >>, "reply"))

\* src/bot.py 429-446
suspend_service(e, up) ==
    Admin(e,
        IF e.args = <<>> THEN Out(<<>>, << Reply("usage", << "suspend" >>, <<>>) >>, FALSE)
        ELSE LET service_id == e.args[1]
                 pre == << Reply("suspending", << service_id >>, <<>>) >>
                 r == make_render_request(Chars("POST"), << "services/", service_id, "/suspend" >>, NoData, up)
             IN  IF r.raised THEN Out(<< r >>, pre, TRUE)
                 ELSE IF r.success
                 THEN Out(<< r >>, pre \o << Reply("suspended", << service_id >>, <<>>) >>, FALSE)
                 ELSE Out(<< r >>, pre \o << Reply("error", ErrorArgs(r.response), <<>>) >>, FALSE))

\* src/bot.py 448-465
resume_service(e, up) ==
    Admin(e,
        IF e.args = <<>> THEN Out(<<>>, << Reply("usage", << "resume" >>, <<>>) >>, FALSE)
        ELSE LET service_id == e.args[1]
                 pre == << Reply("resuming", << service_id >>, <<>>) >>
                 r == make_render_request(Chars("POST"), << "services/", service_id, "/resume" >>, NoData, up)
             IN  IF r.raised THEN Out(<< r >>, pre, TRUE)
                 ELSE IF r.success
                 THEN Out(<< r >>, pre \o << Reply("resumed", << service_id >>, <<>>) >>, FALSE)
                 ELSE Out(<< r >>, pre \o << Reply("error", ErrorArgs(r.response), <<>>) >>, FALSE))

\* src/bot.py 481-484 and 730-736: response.get('id', 'N/A') of a successful deploy
DeployOut(r, pre, args, via) ==
    IF r.response.kind # "dict" THEN Out(<< r >>, pre, TRUE)
    ELSE Out(<< r >>, pre \o << Send(via, "redeployment triggered",
                                     args \o << Get(r.response, "id", "N/A") >>, <<>>) >>, FALSE)

\* src/bot.py 467-486
redeploy_service(e, up) ==
    Admin(e,
        IF e.args = <<>> THEN Out(<<>>, << Reply("usage", << "redeploy" >>, <<>>) >>, FALSE)
        ELSE LET service_id == e.args[1]
                 pre == << Reply("triggering redeployment", << service_id >>, <<>>) >>
                 r == make_render_request(Chars("POST"), << "services/", service_id, "/deploys" >>, NoData, up)
             IN  IF r.raised THEN Out(<< r >>, pre, TRUE)
                 ELSE IF r.success THEN DeployOut(r, pre, <<>>, "reply")
                 ELSE Out(<< r >>, pre \o << Reply("error", ErrorArgs(r.response), <<>>) >>, FALSE))

\* `success, x = make_render_request(...)` without await (src/bot.py 510, 743):
\* the call only creates a coroutine object, no request goes out, and unpacking
\* the coroutine raises TypeError.
UnawaitedUnpack(pre) == Out(<<>>, pre, TRUE)

\* a /scale that does not test `num_instances < 1`
scale_service_NoMinimum(e) ==
    Admin(e,
        IF Len(e.args) < 2 THEN Out(<<>>, << Reply("usage", << "scale" >>, <<>>) >>, FALSE)
        ELSE LET service_id == e.args[1]
             IN  IF ~IsIntString(e.args[2])
                 THEN Out(<<>>, << Reply("not a number", <<>>, <<>>) >>, FALSE)
                 ELSE UnawaitedUnpack(<< Reply("scaling", << service_id, str(int(e.args[2])) >>, <<>>) >>))

\* src/bot.py 488-523
scale_service(e) ==
    Admin(e,
        IF Len(e.args) < 2 THEN Out(<<>>, << Reply("usage", << "scale" >>, <<>>) >>, FALSE)
        ELSE LET service_id == e.args[1]
             IN  IF ~IsIntString(e.args[2])
                 THEN Out(<<>>, << Reply("not a number", <<>>, <<>>) >>, FALSE)
                 ELSE IF int(e.args[2]) < 1
                 THEN Out(<<>>, << Reply("at least 1", <<>>, <<>>) >>, FALSE)
                 ELSE UnawaitedUnpack(<< Reply("scaling", << service_id, str(int(e.args[2])) >>, <<>>) >>))

\* src/bot.py 538-557 and 827-847: the usage of a successful response; the
\* command iterates the body, the button slices it first
UsageOut(r, pre, sliced, buttons, via) ==
    IF r.response.kind = "list" \/ (~sliced /\ IsEmptyBody(r.response))
    THEN Deliver(<< r >>, pre,
                 Composite(Send(via, "usage statistics", <<>>, buttons),
                           [textLen |-> IF r.response.kind = "list" THEN r.response.textLen ELSE HeaderLen,
                            truncated |-> FALSE]))
    ELSE Out(<< r >>, pre, TRUE)

\* src/bot.py 525-557
show_usage(e, up) ==
    Admin(e,
        LET pre == << Reply("fetching usage", <<>>, <<>>) >>
            r == make_render_request(Chars("GET"), << "usage" >>, NoData, up)
        IN  IF r.raised THEN Out(<< r >>, pre, TRUE)
            ELSE IF ~r.success
            THEN Out(<< r >>, pre \o << Reply("error", ErrorArgs(r.response), <<>>) >>, FALSE)
            ELSE UsageOut(r, pre, FALSE, <<>>, "reply"))

\* src/bot.py 559-615
list_cron_jobs(e, up) ==
    Admin(e,
        ListOut(make_render_request(Chars("GET"), << "crons" >>, Params("20"), up),
                << Reply("fetching cron jobs", <<>>, <<>>) >>,
                "no cron jobs", "cron list", 3, "run_cron_",
                << << "refresh_crons" >> >>, "reply"))

\* src/bot.py 617-656
list_databases(e, up) ==
    Admin(e,
        ListOut(make_render_request(Chars("GET"), << "databases" >>, Params("20"), up),
                << Reply("fetching databases", <<>>, <<>>) >>,
                "no databases", "database list", 0, "", <<>>, "reply"))

\* src/bot.py 658-695
create_service_interactive(e) ==
    Admin(e, Out(<<>>, << Reply("create service instructions", <<>>, <<>>) >>, FALSE))

\* src/bot.py 778-822: the Refresh button; no test for an empty list, and
\* services[:10] before the loop
RefreshServicesOut(r) ==
    IF r.response.kind # "list" THEN Out(<< r >>, << Answer >>, TRUE)
    ELSE IF SomeNameMissing(FirstItems(r.response.items, 5)) THEN Out(<< r >>, << Answer >>, TRUE)
    ELSE Deliver(<< r >>, << Answer >>,
                 Composite(Edit("service list", << str(Len(r.response.items)) >>,
                                [i \in 1 .. Len(FirstItems(r.response.items, 5)) |->
                                    << "service_info_", r.response.items[i].id >>]
                                \o << << "refresh_services" >>, << "show_usage" >> >>),
                           Truncated(r.response.textLen, ListMarkLen)))

\* a branch that goes on with the response whether or not the request succeeded
ButtonRequest_IgnoresFailure(r, onSuccess) ==
    IF r.raised THEN Out(<< r >>, << Answer >>, TRUE) ELSE onSuccess

\* One branch of button_callback that makes one awaited request: raise with it,
\* show its error, or go on with `onSuccess`
ButtonRequest(r, onSuccess) ==
    IF r.raised THEN Out(<< r >>, << Answer >>, TRUE)
    ELSE IF ~r.success
    THEN Out(<< r >>, << Answer, Edit("error", ErrorArgs(r.response), <<>>) >>, FALSE)
    ELSE onSuccess

\* src/bot.py 698-903.  No check_admin; query.answer() first; the branches are
\* tested in this order; data that matches none is answered and dropped.
button_callback(e, up) ==
    LET data == e.data
        get(endpoint, params) == make_render_request(Chars("GET"), endpoint, params, up)
        post(endpoint) == make_render_request(Chars("POST"), endpoint, NoData, up)
    IN  IF StartsWith(data, "service_info_")
        THEN LET service_id == ReplacePrefix(data, "service_info_")
                 r == get(<< "services/", service_id >>, NoData)
             IN  ButtonRequest(r, Out(<< r >>, << Answer >>, TRUE))
        ELSE IF StartsWith(data, "redeploy_")
        THEN LET service_id == ReplacePrefix(data, "redeploy_")
                 r == post(<< "services/", service_id, "/deploys" >>)
             IN  ButtonRequest(r, DeployOut(r, << Answer >>, << service_id >>, "edit"))
        ELSE IF StartsWith(data, "toggle_suspend_")
        THEN UnawaitedUnpack(<< Answer >>)
        ELSE IF StartsWith(data, "logs_")
        THEN LET service_id == ReplacePrefix(data, "logs_")
                 r == get(<< "services/", service_id, "/logs" >>, NoData)
             IN  ButtonRequest(r, LogsOut(r, << Answer >>, "edit"))
        ELSE IF data = << "refresh_services" >>
        THEN LET r == get(<< "services" >>, Params("50"))
             IN  ButtonRequest(r, RefreshServicesOut(r))
        ELSE IF data = << "show_usage" >>
        THEN LET r == get(<< "usage" >>, NoData)
             IN  ButtonRequest(r, UsageOut(r, << Answer >>, TRUE, << << "refresh_services" >> >>, "edit"))
        ELSE IF data = << "refresh_crons" >>
        THEN LET r == get(<< "crons" >>, Params("20"))
             IN  ButtonRequest(r,
                    ListOut(r, << Answer >>, "no cron jobs", "cron list", 3, "run_cron_",
                            << << "refresh_crons" >> >>, "edit"))
        ELSE IF StartsWith(data, "run_cron_")
        THEN LET cron_id == ReplacePrefix(data, "run_cron_")
                 r == post(<< "crons/", cron_id, "/runs" >>)
             IN  ButtonRequest(r, Out(<< r >>, << Answer, Edit("cron triggered", << cron_id >>, <<>>) >>, FALSE))
        ELSE Out(<<>>, << Answer >>, FALSE)

-----------------------------------------------------------------------------
(* Dispatch: one action per handler *)

\* a dispatcher that lets the exception of a handler end run_polling
Handle_StopsOnException(e, callback, out) ==
    /\ event' = e
    /\ handledBy' = callback
    /\ trace' = out.trace
    /\ replies' = out.replies
    /\ raised' = out.raised
    /\ errorLog' = FALSE
    /\ mainPc' = IF out.raised THEN "returned" ELSE mainPc
    /\ UNCHANGED << config, handlers, errorHandlers, healthStarted, mainLog >>

\* src/bot.py 906-908 with Application.process_error: an exception of a handler
\* is passed to the registered error handlers, which log it; polling goes on
Handle(e, callback, out) ==
    /\ event' = e
    /\ handledBy' = callback
    /\ trace' = out.trace
    /\ replies' = out.replies
    /\ raised' = out.raised
    /\ errorLog' = (out.raised /\ errorHandlers # <<>>)
    /\ UNCHANGED << config, app >>

\* Updater polling: the next update is fetched when the handler of the one before
\* has ended; what that handler did is then no longer looked at
Polling == mainPc = "polling" /\ event = NoEvent

NextUpdate ==
    /\ event # NoEvent
    /\ event' = NoEvent
    /\ handledBy' = "none"
    /\ trace' = <<>>
    /\ replies' = <<>>
    /\ raised' = FALSE
    /\ errorLog' = FALSE
    /\ UNCHANGED << config, app >>

Start ==
    /\ Polling
    /\ \E e \in Events : HandlerFor(e) = "start" /\ Handle(e, "start", start(e))
HelpCommand ==
    /\ Polling
    /\ \E e \in Events : HandlerFor(e) = "help_command" /\ Handle(e, "help_command", help_command(e))
ListServices ==
    /\ Polling
    /\ \E e \in Events :
        /\ HandlerFor(e) = "list_services"
        /\ \E up \in Upstreams : Handle(e, "list_services", list_services(e, up))
ServiceInfo ==
    /\ Polling
    /\ \E e \in Events :
        /\ HandlerFor(e) = "service_info"
        /\ \E up \in Upstreams : Handle(e, "service_info", service_info(e, up))
ServiceLogs ==
    /\ Polling
    /\ \E e \in Events :
        /\ HandlerFor(e) = "service_logs"
        /\ \E up \in Upstreams : Handle(e, "service_logs", service_logs(e, up))
ServiceDeployments ==
    /\ Polling
    /\ \E e \in Events :
        /\ HandlerFor(e) = "service_deployments"
        /\ \E up \in Upstreams : Handle(e, "service_deployments", service_deployments(e, up))
SuspendService ==
    /\ Polling
    /\ \E e \in Events :
        /\ HandlerFor(e) = "suspend_service"
        /\ \E up \in Upstreams : Handle(e, "suspend_service", suspend_service(e, up))
ResumeService ==
    /\ Polling
    /\ \E e \in Events :
        /\ HandlerFor(e) = "resume_service"
        /\ \E up \in Upstreams : Handle(e, "resume_service", resume_service(e, up))
RedeployService ==
    /\ Polling
    /\ \E e \in Events :
        /\ HandlerFor(e) = "redeploy_service"
        /\ \E up \in Upstreams : Handle(e, "redeploy_service", redeploy_service(e, up))
ScaleService ==
    /\ Polling
    /\ \E e \in Events : HandlerFor(e) = "scale_service" /\ Handle(e, "scale_service", scale_service(e))
ShowUsage ==
    /\ Polling
    /\ \E e \in Events :
        /\ HandlerFor(e) = "show_usage"
        /\ \E up \in Upstreams : Handle(e, "show_usage", show_usage(e, up))
ListCronJobs ==
    /\ Polling
    /\ \E e \in Events :
        /\ HandlerFor(e) = "list_cron_jobs"
        /\ \E up \in Upstreams : Handle(e, "list_cron_jobs", list_cron_jobs(e, up))
ListDatabases ==
    /\ Polling
    /\ \E e \in Events :
        /\ HandlerFor(e) = "list_databases"
        /\ \E up \in Upstreams : Handle(e, "list_databases", list_databases(e, up))
CreateServiceInteractive ==
    /\ Polling
    /\ \E e \in Events :
        /\ HandlerFor(e) = "create_service_interactive"
        /\ Handle(e, "create_service_interactive", create_service_interactive(e))
ButtonCallback ==
    /\ Polling
    /\ \E e \in Events :
        /\ HandlerFor(e) = "button_callback"
        /\ \E up \in Upstreams : Handle(e, "button_callback", button_callback(e, up))

\* Application.process_update when no handler matches: the update is dropped
Unhandled ==
    /\ Polling
    /\ \E e \in Events : HandlerFor(e) = "none" /\ Handle(e, "none", Out(<<>>, <<>>, FALSE))

\* src/bot.py 916, 920: main has returned, the process is gone, and an update
\* sent to the bot is handled by nothing
Undelivered ==
    /\ mainPc = "returned"
    /\ event = NoEvent
    /\ \E e \in Events : Handle(e, "none", Out(<<>>, <<>>, FALSE))

Next ==
    \/ MainCheckEnv \/ MainRegister \/ MainStartHealth \/ MainRunPolling
    \/ Start \/ HelpCommand \/ ListServices \/ ServiceInfo \/ ServiceLogs
    \/ ServiceDeployments \/ SuspendService \/ ResumeService \/ RedeployService
    \/ ScaleService \/ ShowUsage \/ ListCronJobs \/ ListDatabases
    \/ CreateServiceInteractive \/ ButtonCallback \/ Unhandled \/ Undelivered \/ NextUpdate

Spec == Init /\ [][Next]_vars

-----------------------------------------------------------------------------
(* make_render_request on its own: any method, any answer of the upstream *)

GatewayMethods ==
    { Chars("GET"), << "g","e","t" >>, Chars("POST"), << "P","o","s","t" >>,
      Chars("DELETE"), << "d","e","l","e","t","e" >>, Chars("PATCH"), << "p","a","t","c","h" >>,
      Chars("PUT"), << "p","u","t" >>, << "H","E","A","D" >>, << "O","P","T","I","O","N","S" >>, <<>> }
GatewayEndpoints == { << "services" >>, << "services/", "srv-a" >> }
GatewayData == { NoData, Params("50") }

InitGateway ==
    /\ TELEGRAM_BOT_TOKEN = "bot-token"
    /\ RENDER_API_KEY = "rnd_env"
    /\ ADMIN_USER_ID = Unset
    /\ jsonErrorCaught \in BOOLEAN
    /\ mainPc = "start"
    /\ handlers = <<>>
    /\ errorHandlers = <<>>
    /\ healthStarted = FALSE
    /\ mainLog = <<>>
    /\ event = NoEvent
    /\ handledBy = "none"
    /\ trace = <<>>
    /\ replies = <<>>
    /\ raised = FALSE
    /\ errorLog = FALSE

\* a caller awaits make_render_request(method, endpoint, data)
GatewayCall ==
    /\ trace = <<>>
    /\ \E method \in GatewayMethods, endpoint \in GatewayEndpoints,
          data \in GatewayData, up \in Upstreams :
            LET r == make_render_request(method, endpoint, data, up)
            IN  trace' = << r >> /\ raised' = r.raised
    /\ UNCHANGED << config, app, event, handledBy, replies, errorLog >>

\* the caller goes on
GatewayReturn ==
    /\ trace # <<>>
    /\ trace' = <<>>
    /\ raised' = FALSE
    /\ UNCHANGED << config, app, event, handledBy, replies, errorLog >>

NextGateway == GatewayCall \/ GatewayReturn

SpecGateway == InitGateway /\ [][NextGateway]_vars

-----------------------------------------------------------------------------
(* The gateway's contract *)

Is2xx(status) == status >= 200 /\ status <= 299

\* the invocation got an HTTP response (a request went out and was answered)
Answered(r) == r.sent # <<>> /\ r.up.status > 0

\* C6: make_render_request returns success exactly when the response status is
\* 2xx, returns for every other status a failure whose error carries the status
\* code, and never raises to its caller.
C6_SuccessIff2xx ==
    \A i \in 1 .. Len(trace) :
        Answered(trace[i]) =>
            /\ ~trace[i].raised
            /\ trace[i].success <=> Is2xx(trace[i].up.status)
            /\ ~Is2xx(trace[i].up.status) =>
                   Get(trace[i].response, "detail", <<>>) = << str(trace[i].up.status) >>

\* C7: a 204 response makes make_render_request return
\* (True, {"message": "Operation successful"}) for every method it supports,
\* without parsing the (empty) body: it neither fails nor raises, whatever the
\* installed requests does on an unparsable body.
C7_NoContentIsSuccess ==
    \A i \in 1 .. Len(trace) :
        (trace[i].sent \in SupportedMethods /\ trace[i].up.status = 204) =>
            /\ ~trace[i].raised
            /\ trace[i].success
            /\ trace[i].response = OperationSuccessful

\* a 204 answered to a PATCH, where parsing the body would have raised
C7_Witness ==
    /\ Len(trace) = 1
    /\ trace[1].sent = Chars("PATCH")
    /\ trace[1].up.status = 204
    /\ ~jsonErrorCaught
    /\ trace[1].success

-----------------------------------------------------------------------------
(* Credentials *)

\* the commands and buttons that act on the upstream account
ActionCommands ==
    {"services", "info", "logs", "deployments", "suspend", "resume", "redeploy",
     "restart", "scale", "usage", "cron_jobs", "databases"}
IsActionEvent(e) ==
    \/ e.kind = "command" /\ e.name \in ActionCommands
    \/ e.kind = "callback"

ValidTokens == { << "r","n","d","_","k","e","y" >> }
WhoamiStatus(token) == IF token \in ValidTokens THEN 200 ELSE 401
\* the typed characters as one string
TokenString(text) ==
    IF text = << "r","n","d","_","k","e","y" >> THEN "rnd_key" ELSE "not a token"

\* /login, or the token typed in reply to the prompt that carries the marker "API"
IsLoginAttempt(e) ==
    \/ e.kind = "command" /\ e.name = "login"
    \/ e.kind = "text" /\ "API" \in e.parent.markers

-----------------------------------------------------------------------------
(* Replies that continue a two-step prompt *)

RECURSIVE lstrip(_)
lstrip(s) == IF s # <<>> /\ s[1] = " " THEN lstrip(Tail(s)) ELSE s
RECURSIVE rstrip(_)
rstrip(s) == IF s # <<>> /\ s[Len(s)] = " " THEN rstrip(SubSeq(s, 1, Len(s) - 1)) ELSE s
\* str.strip()
strip(s) == rstrip(lstrip(s))

\* "KEY=VALUE".split("=", 1)
HasEquals(s) == \E i \in 1 .. Len(s) : s[i] = "="
FirstEquals(s) == CHOOSE i \in 1 .. Len(s) : s[i] = "=" /\ \A j \in 1 .. (i - 1) : s[j] # "="
KeyOf(s) == strip(SubSeq(s, 1, FirstEquals(s) - 1))
ValueOf(s) == strip(SubSeq(s, FirstEquals(s) + 1, Len(s)))

MutationMarkers == Markers \ {"API"}
MutationVerbs == { Chars("POST"), Chars("PUT"), Chars("PATCH"), Chars("DELETE") }
MutationCalls == { i \in 1 .. Len(trace) : trace[i].sent \in MutationVerbs }
HasReply(tag) == \E i \in 1 .. Len(replies) : replies[i].tag = tag

\* a text reply reached the running bot
ContinuationReply == mainPc = "polling" /\ event.kind = "text"

\* C3: a reply to a prompt that holds a service id and exactly one marker invokes
\* exactly one mutation action, which answers; a reply to a message without a
\* service id invokes none.
C3_ExactlyOneAction ==
    ContinuationReply =>
        /\ (/\ event.parent.id # ""
            /\ Cardinality(event.parent.markers) = 1
            /\ event.parent.markers \subseteq MutationMarkers)
               => (handledBy # "none" /\ replies # <<>> /\ Cardinality(MutationCalls) <= 1)
        /\ event.parent.id = "" => MutationCalls = {}

\* C4: in the deletion-confirmation step DELETE is called only when the reply,
\* trimmed and upper-cased, is CONFIRM; any other reply is reported as cancelled
\* and issues no DELETE.
C4_DeleteOnlyOnConfirm ==
    (ContinuationReply /\ event.parent.id # "" /\ event.parent.markers = {"PERMANENTLY DELETE"}) =>
        LET confirmed == upper(strip(event.text)) = << "C","O","N","F","I","R","M" >>
            deleted == \E i \in 1 .. Len(trace) : trace[i].sent = Chars("DELETE")
        IN  /\ deleted => confirmed
            /\ ~confirmed => (~deleted /\ HasReply("cancelled"))

\* C5: an env-var reply KEY=VALUE is sent upstream as the trimmed key and the
\* trimmed value; a reply without '=' gets a format hint and no network call.
C5_EnvVarParsed ==
    (ContinuationReply /\ event.parent.id # "" /\ event.parent.markers = {"add or update"}) =>
        IF HasEquals(event.text)
        THEN \E i \in 1 .. Len(trace) :
                /\ trace[i].sent # <<>>
                /\ trace[i].data = [kind |-> "env-var", key |-> KeyOf(event.text),
                                    value |-> ValueOf(event.text)]
        ELSE trace = <<>> /\ HasReply("format hint")

-----------------------------------------------------------------------------
(* Commands *)

\* C8: every command the /start and /help texts advertise has a handler: once
\* the bot polls, sending it is dispatched to a handler.
C8_AdvertisedAreRegistered ==
    mainPc = "polling" =>
        \A c \in StartAdvertised \cup HelpAdvertised :
            HandlerFor(Command(1, c, <<>>)) # "none"

\* /scale <service_id> <n> with an integer n >= 1 from an authorized user was handled
ValidScale ==
    /\ handledBy = "scale_service"
    /\ check_admin(event).ok
    /\ Len(event.args) >= 2
    /\ IsIntString(event.args[2])
    /\ int(event.args[2]) >= 1

\* C9: a valid /scale issues a GET of the service and, if the GET succeeds,
\* exactly one PATCH of services/<service_id> with serviceDetails.numInstances = n,
\* and then replies that the service was scaled to n instances.
C9_ScaleGetsThenPatches ==
    ValidScale =>
        /\ Len(trace) >= 1
        /\ trace[1].sent = Chars("GET")
        /\ trace[1].endpoint = << "services/", event.args[1] >>
        /\ ~trace[1].success => Len(trace) = 1
        /\ trace[1].success =>
            /\ Len(trace) = 2
            /\ trace[2].sent = Chars("PATCH")
            /\ trace[2].endpoint = << "services/", event.args[1] >>
            /\ Get(trace[2].data, "numInstances", "") = event.args[2]
            /\ trace[2].success =>
                   replies[Len(replies)] = Reply("scaled", << event.args[1], event.args[2] >>, <<>>)

\* a toggle_suspend button was pressed
ToggleSuspend == handledBy = "button_callback" /\ StartsWith(event.data, "toggle_suspend_")

\* C10: a toggle_suspend press issues a GET of the service and then exactly one
\* mutation chosen from the fetched state: POST resume when 'suspended' is true,
\* POST suspend otherwise; when the GET fails it issues no mutation and shows
\* the error.
C10_ToggleFromFreshState ==
    ToggleSuspend =>
        LET service_id == ReplacePrefix(event.data, "toggle_suspend_")
        IN  /\ Len(trace) >= 1
            /\ trace[1].sent = Chars("GET")
            /\ trace[1].endpoint = << "services/", service_id >>
            /\ ~trace[1].success => (Len(trace) = 1 /\ HasReply("error"))
            /\ trace[1].success =>
                /\ Len(trace) = 2
                /\ trace[2].sent = Chars("POST")
                /\ trace[2].endpoint =
                       IF Get(trace[1].response, "suspended", "false") = "true"
                       THEN << "services/", service_id, "/resume" >>
                       ELSE << "services/", service_id, "/suspend" >>

-----------------------------------------------------------------------------
(* Failures *)

\* the messages a handler sends before it has a result
ProgressTags ==
    {"fetching services", "fetching info", "fetching logs", "fetching deployments",
     "suspending", "resuming", "triggering redeployment", "scaling",
     "fetching usage", "fetching cron jobs", "fetching databases"}

\* an upstream call of the handler returned (False, error)
FailedCall == \E i \in 1 .. Len(trace) : ~trace[i].raised /\ ~trace[i].success

\* the messages of the handler that are neither progress notes nor query.answer()
ResultReplies ==
    { i \in 1 .. Len(replies) : replies[i].via # "answer" /\ replies[i].tag \notin ProgressTags }

\* C11: when an upstream call of a command or button handler fails (returns
\* (False, error)), the handler shows that error and stops: the error is its only
\* result message and its last message, the failed call is its only upstream
\* call (no further call, no retry), and it ends without an exception.
C11_FailureIsReportedAndFinal ==
    FailedCall =>
        /\ Len(trace) = 1
        /\ Len(trace[1].requests) = 1
        /\ ~raised
        /\ ResultReplies = { Len(replies) }
        /\ replies[Len(replies)].tag = "error"
        /\ replies[Len(replies)].args = ErrorArgs(trace[1].response)
        /\ replies[Len(replies)].buttons = <<>>

\* the Refresh button was pressed and the upstream answered 404
C11_Witness ==
    /\ handledBy = "button_callback"
    /\ event.data = << "refresh_services" >>
    /\ FailedCall
    /\ trace[1].up.status = 404

-----------------------------------------------------------------------------
(* Buttons *)

\* the callback data of the buttons under the messages of the handled update
EmittedButtons ==
    UNION { { replies[i].buttons[j] : j \in 1 .. Len(replies[i].buttons) } : i \in 1 .. Len(replies) }

\* what button_callback does when `user` presses the button with this data
Press(user, data, up) == button_callback(Callback(user, data), up)

\* the press replaced the message: query.edit_message_text was reached
Edits(out) == \E i \in 1 .. Len(out.replies) : out.replies[i].via = "edit"

\* C12: every button the bot attaches to a message carries callback data that
\* button_callback recognizes: whoever presses it, and whatever the upstream
\* answers, the press edits the message to a result or an error text.
C12_EveryButtonIsHandled ==
    \A data \in EmittedButtons : \A user \in Users : \A up \in Upstreams :
        Edits(Press(user, data, up))

-----------------------------------------------------------------------------
(* One failure does not stop the bot *)

\* the handler of the update ended in an exception or in a failed upstream call
HandlerFailed == event # NoEvent /\ (raised \/ FailedCall)

\* the bot waits for the next update with everything main has set up in place
ReadyForNextUpdate ==
    /\ mainPc = "polling"
    /\ handlers = HandlerTable
    /\ errorHandlers # <<>>
    /\ event = NoEvent /\ handledBy = "none"
    /\ trace = <<>> /\ replies = <<>> /\ ~raised /\ ~errorLog

\* C13: a failed handler never stops the bot.  When a handler ends in an
\* exception the error handler logs it, when its upstream call fails the gateway
\* logs it, the process is still polling with its handlers and configuration as
\* they were, and the step after the failure brings the bot to the very state in
\* which it waits for an update when nothing has failed, from which the next
\* event of any user is dispatched.
C13_FailureDoesNotStopTheBot ==
    /\ [](HandlerFailed =>
            /\ mainPc = "polling"
            /\ handlers = HandlerTable
            /\ raised => errorLog
            /\ \A i \in 1 .. Len(trace) : (~trace[i].raised /\ ~trace[i].success) => trace[i].logged)
    /\ [][HandlerFailed => (ReadyForNextUpdate' /\ config' = config)]_vars
    /\ [][mainPc = "polling" => (mainPc' = "polling" /\ app' = app /\ config' = config)]_vars

\* a handler has raised, the error handler has logged it and polling goes on
C13_Witness ==
    /\ raised /\ errorLog
    /\ handledBy = "service_info"
    /\ mainPc = "polling"

-----------------------------------------------------------------------------
(* Records with absent fields *)

\* the tags of the messages that list the records of a response
ListingTags == {"service list", "deployment list", "cron list", "database list"}

\* the upstream call of the handler returned a non-empty list of records
ListedRecords ==
    /\ Len(trace) = 1
    /\ ~trace[1].raised /\ trace[1].success
    /\ trace[1].response.kind = "list"
    /\ trace[1].response.items # <<>>

\* C14: listing never fails on absent fields: a handler whose upstream call
\* returned a non-empty list of records, whichever of their fields are absent,
\* ends without an exception and has sent the message that lists them.
C14_AbsentFieldsAreRendered ==
    (ListedRecords /\ trace[1].endpoint \in {<< "services" >>, << "crons" >>, << "databases" >>}) =>
        /\ ~raised
        /\ \E i \in 1 .. Len(replies) : replies[i].tag \in ListingTags

-----------------------------------------------------------------------------
(* Message size *)

\* the tags of the composite messages
CompositeTags == ListingTags \cup {"logs", "usage statistics", "service info"}

\* the handler got a list from which it composes a text longer than the cut-off
LongComposite ==
    /\ ListedRecords
    /\ trace[1].response.textLen > TruncateAt
    /\ \/ trace[1].endpoint \in {<< "services" >>, << "crons" >>, << "databases" >>, << "usage" >>}
       \/ trace[1].endpoint[Len(trace[1].endpoint)] = "/deployments"

\* C15: no text the bot sends is longer than the 4096 characters of the
\* transport, and a handler whose composite message is longer than the cut-off
\* sends it cut: a prefix of it followed by the truncation marker.
C15_LongMessagesAreTruncated ==
    /\ \A i \in 1 .. Len(replies) :
          replies[i].tag \in CompositeTags => replies[i].textLen <= TelegramLimit
    /\ (LongComposite /\ ~SomeNameMissing(trace[1].response.items)) =>
          \E i \in 1 .. Len(replies) :
              /\ replies[i].tag \in CompositeTags
              /\ replies[i].truncated
              /\ replies[i].textLen = TruncateAt + ListMarkLen

-----------------------------------------------------------------------------
(* Authorization *)

\* ADMIN_USER_ID is configured and the user of the update is someone else
FromOtherUser == Truthy(ADMIN_USER_ID) /\ event # NoEvent /\ str(event.user) # ADMIN_USER_ID

\* C16: when ADMIN_USER_ID is configured, an update (command or button press)
\* of a user with another id causes no upstream call; when it is not
\* configured, no user is refused.
C16_OnlyAdminReachesUpstream ==
    /\ FromOtherUser => trace = <<>>
    /\ ~Truthy(ADMIN_USER_ID) => ~HasReply("not authorized")

-----------------------------------------------------------------------------
(* Service information *)

\* the GET of /info or of a service_info button succeeded with a service object
ServiceFetched ==
    /\ Len(trace) = 1
    /\ ~trace[1].raised /\ trace[1].success
    /\ trace[1].response.kind = "dict"
    /\ \/ handledBy = "service_info"
       \/ handledBy = "button_callback" /\ StartsWith(event.data, "service_info_")

\* C17: for an authorized user, /info <service_id> whose GET succeeds ends with
\* a reply that carries the formatted service information and the keyboard of
\* action buttons, and a service_info button whose GET succeeds ends with the
\* message edited to the formatted service information.
C17_InfoShowsFormattedService ==
    ServiceFetched =>
        /\ ~raised
        /\ replies[Len(replies)].tag = "service info"
        /\ handledBy = "service_info" =>
              /\ replies[Len(replies)].via = "reply"
              /\ replies[Len(replies)].buttons = ServiceKeyboard(event.args[1])
        /\ handledBy = "button_callback" => replies[Len(replies)].via = "edit"

-----------------------------------------------------------------------------
(* Arguments *)

\* the commands that take a service id as their first argument
ServiceIdCommands == {"info", "logs", "deployments", "suspend", "resume", "redeploy", "restart"}

\* the update is a registered command without the arguments it needs
MissingArgs ==
    /\ event.kind = "command" /\ handledBy # "none"
    /\ \/ event.name \in ServiceIdCommands /\ event.args = <<>>
       \/ event.name = "scale" /\ Len(event.args) < 2

\* the update is a /scale whose count is not an integer, or is below 1
NotANumber ==
    event.kind = "command" /\ handledBy # "none" /\ event.name = "scale"
        /\ Len(event.args) >= 2 /\ ~IsIntString(event.args[2])
BelowOne ==
    event.kind = "command" /\ handledBy # "none" /\ event.name = "scale"
        /\ Len(event.args) >= 2 /\ IsIntString(event.args[2]) /\ int(event.args[2]) < 1

\* the handler made no upstream call and its only message is this hint
OnlyHint(tag) ==
    /\ trace = <<>> /\ ~raised
    /\ Len(replies) = 1
    /\ replies[1].via = "reply" /\ replies[1].tag = tag

\* C18 as stated: every command that needs arguments answers missing or
\* malformed arguments with a usage or validation hint and makes no upstream
\* call, whoever sends it.
C18_BadArgsGetHint ==
    /\ MissingArgs => OnlyHint("usage")
    /\ NotANumber => OnlyHint("not a number")
    /\ BelowOne => OnlyHint("at least 1")

\* C18, amended: for an authorized user, every command that needs arguments
\* answers missing or malformed arguments with the usage or validation hint as
\* its only message and makes no upstream call; for any other user the only
\* message is the refusal, and again no upstream call is made.
C18_AuthorizedBadArgsGetHint ==
    (MissingArgs \/ NotANumber \/ BelowOne) =>
        IF check_admin(event).ok
        THEN /\ MissingArgs => OnlyHint("usage")
             /\ NotANumber => OnlyHint("not a number")
             /\ BelowOne => OnlyHint("at least 1")
        ELSE OnlyHint("not authorized")

\* an authorized user has sent /scale <id> 0
C18_Witness ==
    /\ BelowOne /\ check_admin(event).ok
    /\ event.args[2] = "0"
    /\ handledBy = "scale_service"
    /\ HasReply("at least 1")

-----------------------------------------------------------------------------
(* One request per invocation *)

\* C19: an invocation of make_render_request makes at most one outbound
\* request and never repeats it: exactly one, with the method in upper case,
\* for GET, POST, DELETE, PATCH and PUT in any letter case, and none for any
\* other method, which returns (False, {"error": "Unsupported method: <method>"})
\* without raising.
C19_AtMostOneRequest ==
    \A i \in 1 .. Len(trace) :
        LET r == trace[i]
        IN  /\ Len(r.requests) <= 1
            /\ IF upper(r.method) \in SupportedMethods
               THEN r.requests = << upper(r.method) >>
               ELSE /\ r.requests = <<>>
                    /\ ~r.raised /\ ~r.success
                    /\ r.response = Failure("Unsupported method", r.method)

\* make_render_request('get', ...) has made its one GET, which failed
C19_Witness ==
    /\ trace # <<>>
    /\ trace[1].method = << "g","e","t" >>
    /\ trace[1].requests = << Chars("GET") >>
    /\ ~trace[1].success

-----------------------------------------------------------------------------
(* Start-up *)

BothTokensSet == Truthy(TELEGRAM_BOT_TOKEN) /\ Truthy(RENDER_API_KEY)

\* C20: main starts the bot only when BOT_TOKEN and RENDER_TOKEN are both set.
\* If either is missing it logs one error and returns: no handler is ever
\* registered, the health server is never started and polling never begins.
\* If both are set it logs no such error, polling begins only after the
\* handlers are registered and the health-server thread is started, and polling
\* is the last step: main does nothing after it.
C20_MainStartsOnlyWithBothTokens ==
    /\ [](~BothTokensSet =>
            /\ mainPc \in {"start", "returned"}
            /\ handlers = <<>> /\ errorHandlers = <<>>
            /\ ~healthStarted
            /\ handledBy = "none"
            /\ mainPc = "returned" => Len(mainLog) = 1)
    /\ [](BothTokensSet => (mainPc # "returned" /\ mainLog = <<>>))
    /\ [](mainPc = "polling" => (healthStarted /\ handlers = HandlerTable /\ errorHandlers # <<>>))
    /\ [][mainPc' = "polling" => (mainPc = "polling" \/ (mainPc = "health" /\ healthStarted))]_vars
    /\ [][mainPc = "polling" => (mainPc' = "polling" /\ app' = app)]_vars

\* BOT_TOKEN is set, RENDER_TOKEN is not: main has logged the error and returned
C20_Witness ==
    /\ Truthy(TELEGRAM_BOT_TOKEN) /\ ~Truthy(RENDER_API_KEY)
    /\ mainPc = "returned"
    /\ mainLog = << "RENDER_API_KEY environment variable is not set" >>
    /\ handlers = <<>> /\ ~healthStarted

====
